---- MODULE Spec2Model ----
(***************************************************************************)
(* Model of acquire/outputs/base.py: the Output base class.                *)
(*                                                                         *)
(* The class gives every output format three derived operations            *)
(* (write_entry, write_bytes, write_volatile) in terms of one abstract     *)
(* primitive, write.  The primitive and close are abstract in base.py      *)
(* (they raise NotImplementedError); the concrete writer behind them is    *)
(* modelled from the specification: a recorder with the life cycle         *)
(* Uninitialized -> Initialized -> Closed.                                 *)
(***************************************************************************)
EXTENDS Integers, Sequences, FiniteSets, TLC

\* ------------------------------------------------------------------ bounds
MaxLen == 1          \* longest enumerated byte buffer (besides Hello)
MaxSize == 2         \* largest caller-supplied size hint
MaxRecords == 2      \* artifacts a writer records before the run stops writing

\* --------------------------------------------------------------- constants
NoneSize == -1       \* size=None, the default of the size parameter

ByteVals == {0}
Hello == <<104, 101, 108, 108, 111>>      \* b"hello"

RECURSIVE SeqsUpTo(_)
SeqsUpTo(n) ==
  IF n = 0 THEN {<<>>}
  ELSE LET S == SeqsUpTo(n - 1)
       IN S \cup {Append(s, b) : s \in {t \in S : Len(t) = n - 1}, b \in ByteVals}

Buffers == SeqsUpTo(MaxLen) \cup {Hello}
SizeHints == {NoneSize} \cup (0 .. MaxSize)
OutputPaths == {"a/b.txt", "proc/1/maps"}
SourcePath == "/proc/1/maps"

\* ------------------------------------------------------ artifact references
\* entry: Optional[Union[FilesystemEntry, Path]]
NoneRef == [kind |-> "none", path |-> "-"]
EntryRef == [kind |-> "entry", path |-> SourcePath]
PathRef == [kind |-> "path", path |-> SourcePath]
Refs == {NoneRef, EntryRef, PathRef}

\* Attribute lookup on the reference.  A FilesystemEntry has .path and
\* .open(); a pathlib.Path has .open() but no .path attribute; None has
\* neither.
HasPathAttr(entry) == entry.kind = "entry"
HasOpenAttr(entry) == entry.kind \in {"entry", "path"}

\* --------------------------------------------------------------- exceptions
NoExc == [type |-> "none", origin |-> "none"]
Exc(t, o) == [type |-> t, origin |-> o]
AttributeError == Exc("AttributeError", "entry")
WriterClosed == Exc("WriterClosed", "write")

\* PermissionError is a subclass of OSError.
OSErrorTypes == {"OSError", "PermissionError"}
\* Failures the destination can raise inside the primitive.
WriteFaults == {"none", "WriteFailure", "OSError"}

\* ----------------------------------------------------------- source medium
\* The state of the file behind a reference at the moment of a call: it is
\* readable with some content, or opening/reading it raises an OS error.
Readable(b) == [ok |-> TRUE, data |-> b, err |-> "none"]
Unreadable(e) == [ok |-> FALSE, data |-> <<>>, err |-> e]
SrcStates == {Readable(b) : b \in Buffers} \cup {Unreadable(e) : e \in OSErrorTypes}

\* ------------------------------------------------------------------ streams
\* A readable byte stream: a buffer and a read position.
Stream(b) == [buf |-> b, pos |-> 0]
ReadAll(fh) == SubSeq(fh.buf, fh.pos + 1, Len(fh.buf))
NoStream == [buf |-> <<>>, pos |-> -1]

\* A stream filled by writing into it and never rewound: positioned at its end.
BytesIO_AtEnd(data) == [buf |-> data, pos |-> Len(data)]

\* io.BytesIO(data): a stream over data, positioned at its start.
BytesIO(data) == Stream(data)

VARIABLES
  wstate,        \* life cycle of the writer
  records,       \* artifacts recorded by the writer, in order
  call,          \* the operation called last and its inputs
  outcome,       \* NoExc when it returned, else the exception it raised
  invoked,       \* invocations of the primitive made by the last operation
  fh,            \* the handle write_entry got from entry.open(): none, open, closed
  script,        \* how many calls of the end-to-end scenario the run has made
  scriptRaised   \* whether one of those calls raised

vars == <<wstate, records, call, outcome, invoked, fh, script, scriptRaised>>

NoCall == [op |-> "none", path |-> "-", ref |-> NoneRef, size |-> NoneSize,
           data |-> <<>>, src |-> Readable(<<>>), fault |-> "none"]

\* the result of running an operation: what it raised, the writer's records
\* afterwards, the primitive invocations it made, the state of its handle.
Result(exc, recs, inv, h) == [exc |-> exc, records |-> recs, invoked |-> inv, fh |-> h]

\* ------------------------------------------------------- the write primitive
Invocation(output_path, stream, entry, size) ==
  [path |-> output_path, data |-> ReadAll(stream), entry |-> entry, size |-> size]

\* What the writer stores for one accepted stream: the bytes it read and
\* their number (a size hint is advisory, never trusted over the bytes read).
Artifact(output_path, stream) ==
  [path |-> output_path, content |-> ReadAll(stream), size |-> Len(ReadAll(stream))]

\* Output.write as a concrete writer implements it.
write(ws, recs, output_path, stream, entry, size, fault) ==
  LET inv == <<Invocation(output_path, stream, entry, size)>>
  IN IF ws = "Closed" THEN Result(WriterClosed, recs, inv, "none")
     ELSE IF fault # "none" THEN Result(Exc(fault, "write"), recs, inv, "none")
     ELSE Result(NoExc, Append(recs, Artifact(output_path, stream)), inv, "none")

\* ------------------------------------------------------------- write_bytes
\* write_bytes with the artifact reference dropped on the way to the primitive.
write_bytes_NoEntry(ws, recs, output_path, data, entry, size, fault) ==
  write(ws, recs, output_path, BytesIO(data), NoneRef, size, fault)

write_bytes(ws, recs, output_path, data, entry, size, fault) ==
  LET stream == BytesIO(data)
  IN write(ws, recs, output_path, stream, entry, size, fault)

\* -------------------------------------------------------------- write_entry
\* entry.open(): the handle, or the exception open() raises.
EntryOpen(entry, src) ==
  IF ~HasOpenAttr(entry) THEN [exc |-> AttributeError, stream |-> NoStream]
  ELSE IF ~src.ok THEN [exc |-> Exc(src.err, "open"), stream |-> NoStream]
  ELSE [exc |-> NoExc, stream |-> Stream(src.data)]

\* A handle closed by a plain fh.close() after the write: skipped when it raises.
WithExit_NoFinally(bodyExc) == IF bodyExc = NoExc THEN "closed" ELSE "open"

\* Leaving the with block closes the handle, whether or not the body raised.
WithExit(bodyExc) == "closed"

\* write_entry recovering from a failed open() the way write_volatile does.
write_entry_Placeholder(ws, recs, output_path, entry, size, src, fault) ==
  LET o == EntryOpen(entry, src)
  IN IF o.exc.type \in OSErrorTypes
       THEN write_bytes(ws, recs, output_path, <<>>, entry, 0, fault)
     ELSE IF o.exc # NoExc THEN Result(o.exc, recs, <<>>, "none")
     ELSE LET r == write(ws, recs, output_path, o.stream, entry, size, fault)
          IN Result(r.exc, r.records, r.invoked, WithExit(r.exc))

\* write_entry that swallows whatever the body of the with block raises.
write_entry_Swallow(ws, recs, output_path, entry, size, src, fault) ==
  LET o == EntryOpen(entry, src)
  IN IF o.exc # NoExc THEN Result(NoExc, recs, <<>>, "none")
     ELSE LET r == write(ws, recs, output_path, o.stream, entry, size, fault)
          IN Result(NoExc, r.records, r.invoked, WithExit(r.exc))

write_entry(ws, recs, output_path, entry, size, src, fault) ==
  LET o == EntryOpen(entry, src)
  IN IF o.exc # NoExc THEN Result(o.exc, recs, <<>>, "none")
     ELSE LET r == write(ws, recs, output_path, o.stream, entry, size, fault)
          IN Result(r.exc, r.records, r.invoked, WithExit(r.exc))

\* ----------------------------------------------------------- write_volatile
\* size or len(buf)
SizeOr(size, n) == IF size = NoneSize \/ size = 0 THEN n ELSE size

\* The try body: VolatileStream(Path(entry.path)), fh.read(), size or len(buf).
VolatileTry(entry, size, src) ==
  IF ~HasPathAttr(entry) THEN [exc |-> AttributeError, buf |-> <<>>, size |-> size]
  ELSE IF ~src.ok THEN [exc |-> Exc(src.err, "read"), buf |-> <<>>, size |-> size]
  ELSE [exc |-> NoExc, buf |-> src.data, size |-> SizeOr(size, Len(src.data))]

\* except PermissionError
Caught_PermissionOnly(exc) == exc.type = "PermissionError"

\* except (OSError, PermissionError)
Caught(exc) == exc.type \in OSErrorTypes

\* write_volatile with the call to write_bytes inside the try block: an OS
\* error of the destination is caught too and an empty placeholder written.
write_volatile_WideTry(ws, recs, output_path, entry, size, src, fault) ==
  LET t == VolatileTry(entry, size, src)
      first == IF t.exc = NoExc
                 THEN write_bytes(ws, recs, output_path, t.buf, entry, t.size, fault)
                 ELSE Result(t.exc, recs, <<>>, "none")
  IN IF first.exc = NoExc THEN first
     ELSE IF Caught(first.exc)
       THEN LET second == write_bytes(ws, first.records, output_path, <<>>, entry, 0, fault)
            IN Result(second.exc, second.records, first.invoked \o second.invoked, "none")
     ELSE first

write_volatile(ws, recs, output_path, entry, size, src, fault) ==
  LET t == VolatileTry(entry, size, src)
  IN IF t.exc = NoExc
       THEN write_bytes(ws, recs, output_path, t.buf, entry, t.size, fault)
     ELSE IF Caught(t.exc)
       THEN write_bytes(ws, recs, output_path, <<>>, entry, 0, fault)
     ELSE Result(t.exc, recs, <<>>, "none")

\* ----------------------------------------------------- end-to-end scenario
\* init(); write_bytes("a/b.txt", b"hello", None);
\* write_volatile("proc/1/maps", entry whose read fails); close()
ScriptCall(k, c) ==
  CASE k = 1 -> c.op = "init"
    [] k = 2 -> /\ c.op = "write_bytes" /\ c.path = "a/b.txt" /\ c.data = Hello
                /\ c.ref = NoneRef /\ c.size = NoneSize /\ c.fault = "none"
    [] k = 3 -> /\ c.op = "write_volatile" /\ c.path = "proc/1/maps"
                /\ c.ref = EntryRef /\ c.size = NoneSize /\ ~c.src.ok
                /\ c.fault = "none"
    [] k = 4 -> c.op = "close"
    [] OTHER -> FALSE

Observe(c, exc) ==
  LET on == script >= 0 /\ ScriptCall(script + 1, c)
  IN /\ script' = IF on THEN script + 1 ELSE -1
     /\ scriptRaised' = IF on THEN (scriptRaised \/ exc # NoExc) ELSE FALSE

\* ------------------------------------------------------------------ actions
Init ==
  /\ wstate = "Uninitialized"
  /\ records = <<>>
  /\ call = NoCall
  /\ outcome = NoExc
  /\ invoked = <<>>
  /\ fh = "none"
  /\ script = 0
  /\ scriptRaised = FALSE

\* The orchestrator makes one call at a time.  It writes between init and
\* the moment the writer is full, and may go on calling a closed writer.
Idle == call.op = "none"

CanWrite ==
  /\ Idle
  /\ \/ wstate = "Initialized" /\ Len(records) < MaxRecords
     \/ wstate = "Closed"

Finish(c, r) ==
  /\ call' = c
  /\ outcome' = r.exc
  /\ records' = r.records
  /\ invoked' = r.invoked
  /\ fh' = r.fh
  /\ Observe(c, r.exc)

DoInit ==
  /\ Idle
  /\ wstate = "Uninitialized"
  /\ wstate' = "Initialized"
  /\ Finish([NoCall EXCEPT !.op = "init"], Result(NoExc, records, <<>>, "none"))

DoClose ==
  /\ Idle
  /\ wstate \in {"Uninitialized", "Initialized"}
  /\ wstate' = "Closed"
  /\ Finish([NoCall EXCEPT !.op = "close"], Result(NoExc, records, <<>>, "none"))

DoWrite ==
  /\ CanWrite
  /\ \E p \in OutputPaths, b \in Buffers, e \in Refs, s \in SizeHints, f \in WriteFaults :
       Finish([NoCall EXCEPT !.op = "write", !.path = p, !.data = b, !.ref = e,
                             !.size = s, !.fault = f],
              write(wstate, records, p, Stream(b), e, s, f))
  /\ UNCHANGED wstate

DoWriteBytes ==
  /\ CanWrite
  /\ \E p \in OutputPaths, b \in Buffers, e \in Refs, s \in SizeHints, f \in WriteFaults :
       Finish([NoCall EXCEPT !.op = "write_bytes", !.path = p, !.data = b, !.ref = e,
                             !.size = s, !.fault = f],
              write_bytes(wstate, records, p, b, e, s, f))
  /\ UNCHANGED wstate

DoWriteEntry ==
  /\ CanWrite
  /\ \E p \in OutputPaths, e \in Refs, s \in SizeHints, src \in SrcStates, f \in WriteFaults :
       Finish([NoCall EXCEPT !.op = "write_entry", !.path = p, !.ref = e, !.size = s,
                             !.src = src, !.fault = f],
              write_entry(wstate, records, p, e, s, src, f))
  /\ UNCHANGED wstate

DoWriteVolatile ==
  /\ CanWrite
  /\ \E p \in OutputPaths, e \in Refs, s \in SizeHints, src \in SrcStates, f \in WriteFaults :
       Finish([NoCall EXCEPT !.op = "write_volatile", !.path = p, !.ref = e, !.size = s,
                             !.src = src, !.fault = f],
              write_volatile(wstate, records, p, e, s, src, f))
  /\ UNCHANGED wstate

\* The orchestrator has seen the result of the call and turns to the next
\* artifact; nothing of the call is kept but what the writer recorded.
Resume ==
  /\ ~Idle
  /\ call' = NoCall
  /\ outcome' = NoExc
  /\ invoked' = <<>>
  /\ fh' = "none"
  /\ UNCHANGED <<wstate, records, script, scriptRaised>>

Next ==
  \/ DoInit
  \/ DoWrite
  \/ DoWriteEntry
  \/ DoWriteBytes
  \/ DoWriteVolatile
  \/ DoClose
  \/ Resume

Spec == Init /\ [][Next]_vars

\* ------------------------------------------------------------ vocabulary
WriteOps == {"write", "write_entry", "write_bytes", "write_volatile"}
DerivedOps == {"write_entry", "write_bytes", "write_volatile"}

\* the destination takes what it is given: the writer is open and sound
Healthy(ws, c) == ws = "Initialized" /\ c.fault = "none"

\* the exception the primitive raises when it does not take the stream
PrimitiveExc(ws, c) == IF ws = "Closed" THEN WriterClosed ELSE Exc(c.fault, "write")

\* the call gets as far as the write primitive
Reaches(c) ==
  \/ c.op \in {"write", "write_bytes"}
  \/ c.op = "write_entry" /\ HasOpenAttr(c.ref) /\ c.src.ok
  \/ c.op = "write_volatile" /\ HasPathAttr(c.ref)

Placeholder(p) == [path |-> p, content |-> <<>>, size |-> 0]

\* the operation called, run on a writer in state ws holding recs
Run(c, ws, recs) ==
  CASE c.op = "write" -> write(ws, recs, c.path, Stream(c.data), c.ref, c.size, c.fault)
    [] c.op = "write_bytes" -> write_bytes(ws, recs, c.path, c.data, c.ref, c.size, c.fault)
    [] c.op = "write_entry" -> write_entry(ws, recs, c.path, c.ref, c.size, c.src, c.fault)
    [] c.op = "write_volatile" -> write_volatile(ws, recs, c.path, c.ref, c.size, c.src, c.fault)
    [] OTHER -> Result(NoExc, recs, <<>>, "none")

\* ------------------------------------------------------------------ claims

\* C1: write_volatile never raises for an unreadable source: for every
\* output path, every artifact reference that names a location (filesystem
\* entry or plain path) and every size hint, when the source raises an OS
\* error and the destination is sound, the call returns normally and exactly
\* one artifact is recorded at the output path, empty and of size 0.
C1_UnreadableNeverRaises ==
  [][ ( /\ call'.op = "write_volatile"
        /\ call'.ref # NoneRef
        /\ ~call'.src.ok
        /\ Healthy(wstate, call') )
      => ( /\ outcome' = NoExc
           /\ records' = Append(records, Placeholder(call'.path)) ) ]_vars

\* C2: write_volatile on a readable source of length L, called with a size
\* hint S # L, passes L (the bytes actually read) to the write primitive,
\* never S.
C2_PassesActualLength ==
  ( /\ call.op = "write_volatile"
    /\ call.ref = EntryRef
    /\ call.src.ok
    /\ call.size # NoneSize
    /\ call.size # Len(call.src.data) )
  => ( /\ Len(invoked) = 1
       /\ invoked[1].size = Len(call.src.data) )

\* C3 (as stated): after close() every call to a write operation fails with
\* WriterClosed and the recorded artifacts are unchanged.
C3_AlwaysWriterClosed ==
  [][ (wstate = "Closed" /\ call'.op \in WriteOps)
      => (outcome' = WriterClosed /\ records' = records) ]_vars

\* C3 (amended): after close() every call to a write operation raises and
\* the recorded artifacts are unchanged; it raises WriterClosed exactly when
\* the call reaches the write primitive, and otherwise the error met before
\* the primitive (open() failed, or the reference lacks the attribute the
\* operation reads).  No step of a closed writer records an artifact.
C3_ClosedWriterRejects ==
  [][ /\ wstate = "Closed" => records' = records
      /\ (wstate = "Closed" /\ call'.op \in WriteOps)
           => /\ outcome' # NoExc
              /\ Reaches(call') => (outcome' = WriterClosed /\ Len(invoked') = 1)
              /\ ~Reaches(call') => (outcome'.origin \in {"open", "entry"} /\ invoked' = <<>>)
    ]_vars

C3_Witness ==
  /\ wstate = "Closed"
  /\ call.op = "write_volatile"
  /\ outcome = WriterClosed
  /\ records # <<>>

\* C4: write_entry releases the handle it got from entry.open() on every
\* exit path: whenever open() succeeded the handle is closed once
\* write_entry has returned or raised, and no handle is ever left open.
C4_HandleReleased ==
  /\ fh # "open"
  /\ (call.op = "write_entry" /\ EntryOpen(call.ref, call.src).exc = NoExc)
       => fh = "closed"

C4_Witness ==
  /\ call.op = "write_entry"
  /\ outcome = Exc("WriteFailure", "write")
  /\ fh = "closed"

\* C5: when write_entry is given a reference whose open() raises, that
\* failure (SourceUnavailable) reaches the caller, the write primitive is
\* not invoked and the recorded artifacts are unchanged.
C5_OpenFailurePropagates ==
  [][ (call'.op = "write_entry" /\ HasOpenAttr(call'.ref) /\ ~call'.src.ok)
      => ( /\ outcome' = Exc(call'.src.err, "open")
           /\ invoked' = <<>>
           /\ records' = records ) ]_vars

C5_Witness ==
  /\ call.op = "write_entry"
  /\ wstate = "Initialized"
  /\ outcome.origin = "open"
  /\ invoked = <<>>

\* C6: write_volatile given a plain path located at P records the same
\* artifact, and raises as little, as when given a filesystem entry whose
\* path attribute is P.
C6_PathLikeEntry ==
  [][ (call'.op = "write_volatile" /\ call'.ref = PathRef)
      => LET r == write_volatile(wstate, records, call'.path, EntryRef,
                                 call'.size, call'.src, call'.fault)
         IN outcome' = r.exc /\ records' = r.records ]_vars

\* C7: write_bytes(p, b, ref) invokes the write primitive once with a stream
\* whose full content is b, at path p; on a sound destination the result is
\* one more record, at p, with content b and size len(b).
C7_BytesRecorded ==
  [][ call'.op = "write_bytes"
      => ( /\ Len(invoked') = 1
           /\ invoked'[1].data = call'.data
           /\ invoked'[1].path = call'.path
           /\ (Healthy(wstate, call') /\ call'.size = NoneSize)
                => records' = Append(records, [path |-> call'.path,
                                               content |-> call'.data,
                                               size |-> Len(call'.data)]) ) ]_vars

C7_Witness ==
  /\ call.op = "write_bytes"
  /\ outcome = NoExc
  /\ call.data # <<>>
  /\ records # <<>>
  /\ records[Len(records)].content = call.data

\* C8: init(), write_bytes("a/b.txt", b"hello", None),
\* write_volatile("proc/1/maps", entry whose read fails), close() on a fresh
\* writer: no call raises and exactly two artifacts are recorded, "a/b.txt"
\* with content hello and size 5, then "proc/1/maps" with size 0.
C8_EndToEnd ==
  script = 4
  => ( /\ ~scriptRaised
       /\ wstate = "Closed"
       /\ records = << [path |-> "a/b.txt", content |-> Hello, size |-> 5],
                       [path |-> "proc/1/maps", content |-> <<>>, size |-> 0] >> )

C8_Witness == script = 4 /\ call.op = "close"

\* C9: a failure raised by the write primitive reaches the caller of
\* write_entry, write_bytes and write_volatile unchanged, after exactly one
\* invocation of the primitive and with nothing recorded; for
\* write_volatile also when the failure is an OS error.
C9_WriteFailurePropagates ==
  [][ ( /\ call'.op \in DerivedOps
        /\ Reaches(call')
        /\ ~Healthy(wstate, call') )
      => ( /\ outcome' = PrimitiveExc(wstate, call')
           /\ Len(invoked') = 1
           /\ records' = records ) ]_vars

C9_Witness ==
  /\ call.op = "write_volatile"
  /\ call.fault = "OSError"
  /\ outcome = Exc("OSError", "write")
  /\ Len(invoked) = 1

\* C10: each call of write_entry, write_bytes or write_volatile that returns
\* normally has invoked the write primitive exactly once, with the output
\* path and the artifact reference it was given, and its record follows
\* those of the earlier calls; what the call raises and what it hands to the
\* primitive are the same as on a writer that has recorded nothing.
C10_OneInvocationPassThrough ==
  [][ (call'.op \in DerivedOps /\ outcome' = NoExc)
      => ( /\ Len(invoked') = 1
           /\ invoked'[1].path = call'.path
           /\ invoked'[1].entry = call'.ref
           /\ Len(records') = Len(records) + 1
           /\ SubSeq(records', 1, Len(records)) = records
           /\ records'[Len(records')].path = call'.path
           /\ LET r == Run(call', wstate, <<>>)
              IN outcome' = r.exc /\ invoked' = r.invoked ) ]_vars

C10_Witness ==
  /\ call.op = "write_entry"
  /\ outcome = NoExc
  /\ Len(records) = 2
  /\ invoked[1].entry = call.ref

TypeOK ==
  /\ wstate \in {"Uninitialized", "Initialized", "Closed"}
  /\ Len(records) <= MaxRecords
  /\ Len(invoked) <= 1
  /\ fh \in {"none", "open", "closed"}
  /\ script \in -1 .. 4
====
